---- MODULE Spec2Model ----
(***************************************************************************)
(* Cashflow Commander: the transaction store, the aggregation queries and  *)
(* the Streamlit session that drives them (src/database.py, src/app.py).   *)
(*                                                                         *)
(* Amounts are held in cents (0.01 = 1), so SUM and cumsum are exact.      *)
(* Text is held as the sequence of its character codes, so that ORDER BY   *)
(* and GROUP BY on the date column compare text as SQLite does.            *)
(***************************************************************************)
EXTENDS Integers, Sequences, FiniteSets, TLC

VARIABLES transactions, seq, users, login_logs, session_state, last

vars == <<transactions, seq, users, login_logs, session_state, last>>

(***************************************************************************)
(* Bounds of the model.                                                    *)
(***************************************************************************)
\* number of rows the store API may insert (ids 1..MaxId)
MaxId == 3
\* number of rows the forms of the app may insert
MaxAppId == 2
\* number of login attempts that are logged
MaxLogs == 2

(***************************************************************************)
(* Text and dates.                                                         *)
(***************************************************************************)
Dash == 45
Zero == 48

RECURSIVE Str(_)
\* str(n) of a non-negative int: its decimal digits, no padding
Str(n) == IF n < 10 THEN <<Zero + n>> ELSE Str(n \div 10) \o <<Zero + (n % 10)>>

RECURSIVE ZeroPad(_, _)
\* the 0Nd / %Y / %m / %d field: padded with zeros on the left to the width
ZeroPad(s, width) == IF Len(s) >= width THEN s ELSE ZeroPad(<<Zero>> \o s, width)

\* the month written without its leading zero
Fmt02dUnpadded(n) == Str(n)

\* f'{month:02d}'
Fmt02d(n) == ZeroPad(Str(n), 2)

\* date.strftime('%Y-%m-%d')
Strftime(d) ==
    ZeroPad(Str(d.year), 4) \o <<Dash>> \o ZeroPad(Str(d.month), 2)
        \o <<Dash>> \o ZeroPad(Str(d.day), 2)

RECURSIVE ToInt(_)
\* the number a run of digits denotes
ToInt(s) == IF s = <<>> THEN 0 ELSE 10 * ToInt(SubSeq(s, 1, Len(s) - 1)) + (s[Len(s)] - Zero)

\* pd.to_datetime on a 'YYYY-MM-DD' text
ToDatetime(text) ==
    [year |-> ToInt(SubSeq(text, 1, 4)), month |-> ToInt(SubSeq(text, 6, 7)),
     day |-> ToInt(SubSeq(text, 9, 10))]

\* SQLite strftime('%Y', date) and strftime('%m', date) on a 'YYYY-MM-DD' text
SqlYear(text) == SubSeq(text, 1, 4)
SqlMonth(text) == SubSeq(text, 6, 7)

RECURSIVE TextLess(_, _)
\* s < t in SQLite's BINARY collation
TextLess(s, t) ==
    IF t = <<>> THEN FALSE
    ELSE IF s = <<>> THEN TRUE
    ELSE IF s[1] # t[1] THEN s[1] < t[1]
    ELSE TextLess(Tail(s), Tail(t))

(***************************************************************************)
(* Inputs.                                                                 *)
(***************************************************************************)
Usernames == {"admin", "alice"}

D(y, m, d) == [year |-> y, month |-> m, day |-> d]

Row(d, t, c, a, desc) ==
    [date |-> Strftime(d), type |-> t, category |-> c, amount |-> a, description |-> desc]

\* rows the store accepts
GoodRows ==
    { Row(D(2024, 1, 5), "Income", "Sales", 10000, ""),
      Row(D(2024, 1, 5), "Expense", "Rent", 4000, "office"),
      Row(D(2024, 1, 20), "Income", "Sales", 5000, ""),
      Row(D(2024, 2, 1), "Income", "Sales", 5000, ""),
      Row(D(2023, 1, 5), "Expense", "Rent", 1, "") }

\* rows whose category is registered under the other kind, or not registered
OddRows ==
    { Row(D(2024, 2, 1), "Income", "Rent", 4000, ""),
      Row(D(2024, 1, 5), "Income", "Bogus", 1, "") }

\* rows that break a CHECK constraint of the transactions table
BadRows ==
    { Row(D(2024, 1, 5), "Income", "Sales", 0, ""),
      Row(D(2024, 1, 5), "Expense", "Rent", -4000, ""),
      Row(D(2024, 1, 5), "Transfer", "Sales", 10000, "") }

TxInputs == GoodRows \cup OddRows \cup BadRows

\* years and months chosen in the sidebar's date filter
Years == {2023, 2024}
Months == {1, 2, 12}

NoRow == [date |-> <<>>, type |-> "", category |-> "", amount |-> 0, description |-> ""]

(***************************************************************************)
(* The database.                                                           *)
(***************************************************************************)
\* default_categories, seeded by init_database
categories ==
    [name \in {"Sales", "Services", "Other Income", "Rent", "Supplies", "Utilities",
               "Marketing", "Insurance", "Other Expense"} |->
        IF name \in {"Sales", "Services", "Other Income"} THEN "Income" ELSE "Expense"]

\* a table without the CHECK on type
CheckTypeMissing(type) == TRUE

\* CHECK (type IN ('Income', 'Expense'))
CheckType(type) == type \in {"Income", "Expense"}

\* a CHECK that lets zero through
CheckAmountNonNegative(amount) == amount >= 0

\* CHECK (amount > 0)
CheckAmount(amount) == amount > 0

\* the constraints a stored row of transactions has to satisfy
RowAllowed(row) == CheckType(row.type) /\ CheckAmount(row.amount)

\* the stored row: the columns of the INSERT
Stored(username, row) ==
    [username |-> username, date |-> row.date, type |-> row.type,
     category |-> row.category, amount |-> row.amount, description |-> row.description]

\* the id AUTOINCREMENT gives the next row: one past the largest ever given
NextRowId(s) == s + 1

\* INSERT INTO transactions ... : the table after the statement
InsertRow(tbl, s, username, row) ==
    [i \in DOMAIN tbl \cup {NextRowId(s)} |->
        IF i = NextRowId(s) THEN Stored(username, row) ELSE tbl[i]]

\* UPDATE transactions SET date, type, category, amount, description WHERE id = ?
UpdateRows(tbl, id, row) ==
    [i \in DOMAIN tbl |-> IF i = id THEN Stored(tbl[i].username, row) ELSE tbl[i]]

\* a DELETE whose WHERE reads id <= ?
DeleteRowsUpTo(tbl, id) == [i \in {j \in DOMAIN tbl : j > id} |-> tbl[i]]

\* DELETE FROM transactions WHERE id = ?
DeleteRows(tbl, id) == [i \in DOMAIN tbl \ {id} |-> tbl[i]]

\* a DELETE without its WHERE
DeleteEveryRow(tbl, username) == [i \in {} |-> tbl[i]]

\* DELETE FROM transactions WHERE username = ?
DeleteUserRows(tbl, username) ==
    [i \in {j \in DOMAIN tbl : tbl[j].username # username} |-> tbl[i]]

(***************************************************************************)
(* The queries.                                                            *)
(***************************************************************************)
\* a query without its WHERE
UserIdsUnscoped(tbl, username) == DOMAIN tbl

\* WHERE username = ?
UserIds(tbl, username) == {i \in DOMAIN tbl : tbl[i].username = username}

\* ORDER BY date DESC, id: among equal dates the oldest row first
ComesBeforeIdAscending(tbl, i, j) ==
    \/ TextLess(tbl[j].date, tbl[i].date)
    \/ tbl[i].date = tbl[j].date /\ i < j

\* ORDER BY date DESC, id DESC: row i comes before row j
ComesBefore(tbl, i, j) ==
    \/ TextLess(tbl[j].date, tbl[i].date)
    \/ tbl[i].date = tbl[j].date /\ i > j

RECURSIVE OrderRows(_, _)
\* the ids of a result set in the order of ORDER BY date DESC, id DESC
OrderRows(tbl, ids) ==
    IF ids = {} THEN <<>>
    ELSE LET first == CHOOSE i \in ids : \A j \in ids \ {i} : ComesBefore(tbl, i, j)
         IN  <<first>> \o OrderRows(tbl, ids \ {first})

\* one row of the DataFrame of get_all_transactions
FrameRow(tbl, i) ==
    [id |-> i, date |-> ToDatetime(tbl[i].date), type |-> tbl[i].type,
     category |-> tbl[i].category, amount |-> tbl[i].amount,
     description |-> tbl[i].description]

\* get_all_transactions(username)
GetAllTransactions(tbl, username) ==
    LET order == OrderRows(tbl, UserIds(tbl, username))
    IN  [k \in 1..Len(order) |-> FrameRow(tbl, order[k])]

RECURSIVE SumAmount(_, _)
\* SUM(amount) over a group of rows
SumAmount(tbl, ids) ==
    IF ids = {} THEN 0
    ELSE LET i == CHOOSE j \in ids : TRUE
         IN  tbl[i].amount + SumAmount(tbl, ids \ {i})

\* WHERE username = ? AND strftime('%Y', date) = ? AND strftime('%m', date) = ?
\* with the parameters (username, str(year), f'{month:02d}')
MonthIds(tbl, username, year, month) ==
    {i \in UserIds(tbl, username) :
        SqlYear(tbl[i].date) = Str(year) /\ SqlMonth(tbl[i].date) = Fmt02d(month)}

\* get_monthly_summary(username, year, month): the rows, in no particular order
GetMonthlySummary(tbl, username, year, month) ==
    LET ids == MonthIds(tbl, username, year, month)
    IN  { [category |-> tbl[i].category, type |-> tbl[i].type,
           total |-> SumAmount(tbl, {j \in ids : tbl[j].category = tbl[i].category
                                                  /\ tbl[j].type = tbl[i].type})]
          : i \in ids }

\* a CASE that compares with 'income', which no stored type equals
SignedLowerCase(r) == IF r.type = "income" THEN r.amount ELSE 0 - r.amount

\* CASE WHEN type = 'Income' THEN amount ELSE -amount END
Signed(r) == IF r.type = "Income" THEN r.amount ELSE 0 - r.amount

RECURSIVE DailyChange(_, _)
\* SUM(CASE ...) over the rows of one date
DailyChange(tbl, ids) ==
    IF ids = {} THEN 0
    ELSE LET i == CHOOSE j \in ids : TRUE
         IN  Signed(tbl[i]) + DailyChange(tbl, ids \ {i})

RECURSIVE OrderDates(_)
\* ORDER BY date: the date texts, ascending
OrderDates(dates) ==
    IF dates = {} THEN <<>>
    ELSE LET first == CHOOSE d \in dates : \A e \in dates \ {d} : TextLess(d, e)
         IN  <<first>> \o OrderDates(dates \ {first})

\* the daily changes, not summed up
CumsumForgotten(s) == s

RECURSIVE Cumsum(_)
\* Series.cumsum()
Cumsum(s) ==
    IF s = <<>> THEN <<>>
    ELSE LET head == Cumsum(SubSeq(s, 1, Len(s) - 1))
         IN  Append(head, (IF head = <<>> THEN 0 ELSE head[Len(head)]) + s[Len(s)])

\* get_cumulative_balance(username)
GetCumulativeBalance(tbl, username) ==
    LET ids == UserIds(tbl, username)
        dates == OrderDates({tbl[i].date : i \in ids})
        daily == [k \in 1..Len(dates) |->
                     DailyChange(tbl, {i \in ids : tbl[i].date = dates[k]})]
        cum == Cumsum(daily)
    IN  [k \in 1..Len(dates) |->
            [date |-> ToDatetime(dates[k]), daily_change |-> daily[k],
             cumulative_balance |-> cum[k]]]

(***************************************************************************)
(* Passwords.                                                              *)
(***************************************************************************)
Salts == {"salt1"}

\* bcrypt.hashpw(password, salt)
Hashpw(password, salt) == [salt |-> salt, password |-> password]

\* bcrypt.checkpw(password, hashed)
Checkpw(password, hashed) == Hashpw(password, hashed.salt) = hashed

(***************************************************************************)
(* The state after construction: CashflowDatabase() on a fresh file and a  *)
(* fresh Streamlit session.                                                *)
(***************************************************************************)
None == "None"

EmptyFrame == <<>>

NoCall ==
    [op |-> "none", username |-> None, id |-> 0, row |-> NoRow, result |-> "ok",
     password |-> None, role |-> None, balance |-> 0]

Init ==
    /\ transactions = <<>>
    /\ seq = 0
    /\ \E salt \in Salts :
          users = [u \in {"admin"} |->
                      [password_hash |-> Hashpw("admin123", salt), role |-> "admin"]]
    /\ login_logs = <<>>
    /\ session_state = [logged_in |-> FALSE, user_role |-> None, username |-> None,
                        transactions_df |-> EmptyFrame]
    /\ last = NoCall

(***************************************************************************)
(* The store's operations, called directly.                                *)
(***************************************************************************)
Call(op, username, id, row, result) ==
    [op |-> op, username |-> username, id |-> id, row |-> row, result |-> result,
     password |-> None, role |-> None, balance |-> 0]

\* a call that takes or returns a password or a role
AuthCall(op, username, password, role, result) ==
    [Call(op, username, 0, NoRow, result) EXCEPT !.password = password, !.role = role]

\* add_transaction(username, date, type, category, amount, description)
AddTransaction(username, row) ==
    /\ IF RowAllowed(row)
       THEN /\ seq < MaxId
            /\ transactions' = InsertRow(transactions, seq, username, row)
            /\ seq' = NextRowId(seq)
            /\ last' = Call("add", username, NextRowId(seq), row, "ok")
       ELSE /\ UNCHANGED <<transactions, seq>>
            /\ last' = Call("add", username, 0, row, "IntegrityError")
    /\ UNCHANGED <<users, login_logs, session_state>>

\* update_transaction(transaction_id, date, type, category, amount, description)
UpdateTransaction(id, row) ==
    /\ IF id \in DOMAIN transactions /\ ~RowAllowed(row)
       THEN /\ UNCHANGED transactions
            /\ last' = Call("update", None, id, row, "IntegrityError")
       ELSE /\ transactions' = UpdateRows(transactions, id, row)
            /\ last' = Call("update", None, id, row, "ok")
    /\ UNCHANGED <<seq, users, login_logs, session_state>>

\* delete_transaction(transaction_id)
DeleteTransaction(id) ==
    /\ transactions' = DeleteRows(transactions, id)
    /\ last' = Call("delete", None, id, NoRow, "ok")
    /\ UNCHANGED <<seq, users, login_logs, session_state>>

\* delete_all_user_transactions(username)
DeleteAllUserTransactions(username) ==
    /\ transactions' = DeleteUserRows(transactions, username)
    /\ last' = Call("deleteAll", username, 0, NoRow, "ok")
    /\ UNCHANGED <<seq, users, login_logs, session_state>>

\* the ids a caller may name: every id given so far and one never given
Ids == 1..(seq + 1)

Next ==
    \/ \E username \in Usernames, row \in TxInputs : AddTransaction(username, row)
    \/ \E id \in Ids, row \in TxInputs : UpdateTransaction(id, row)
    \/ \E id \in Ids : DeleteTransaction(id)
    \/ \E username \in Usernames : DeleteAllUserTransactions(username)

Spec == Init /\ [][Next]_vars

(***************************************************************************)
(* The users table.                                                        *)
(***************************************************************************)
\* verify_user(username, password): <<success, role>>
VerifyUser(usrs, username, password) ==
    IF username \in DOMAIN usrs /\ Checkpw(password, usrs[username].password_hash)
    THEN <<TRUE, usrs[username].role>>
    ELSE <<FALSE, None>>

\* CHECK (role IN ('admin', 'user'))
CheckRole(role) == role \in {"admin", "user"}

\* an INSERT OR REPLACE INTO users
AddUserOrReplace(usrs, username, password, role, salt) ==
    <<TRUE, [u \in DOMAIN usrs \cup {username} |->
                IF u = username
                THEN [password_hash |-> Hashpw(password, salt), role |-> role]
                ELSE usrs[u]]>>

\* add_user(username, password, role): <<success, the users table afterwards>>;
\* the PRIMARY KEY on username and the CHECK on role make the INSERT raise
\* IntegrityError, which add_user turns into (False, "Username already exists")
AddUser(usrs, username, password, role, salt) ==
    IF username \in DOMAIN usrs \/ ~CheckRole(role)
    THEN <<FALSE, usrs>>
    ELSE <<TRUE, [u \in DOMAIN usrs \cup {username} |->
                    IF u = username
                    THEN [password_hash |-> Hashpw(password, salt), role |-> role]
                    ELSE usrs[u]]>>

\* an UPDATE that is never committed
UpdatePasswordLost(usrs, username, new_password, salt) == <<TRUE, usrs>>

\* update_password(username, new_password): <<success, the users table afterwards>>;
\* an UPDATE that matches no row raises nothing
UpdatePassword(usrs, username, new_password, salt) ==
    <<TRUE, [u \in DOMAIN usrs |->
                IF u = username
                THEN [usrs[u] EXCEPT !.password_hash = Hashpw(new_password, salt)]
                ELSE usrs[u]]>>

\* log_login(username, status)
LogLogin(logs, username, status) == Append(logs, [username |-> username, status |-> status])

\* get_categories(type_filter): the names, as a set
GetCategories(type_filter) == {name \in DOMAIN categories : categories[name] = type_filter}

(***************************************************************************)
(* The Streamlit session: one handler per form or button of app.py.        *)
(***************************************************************************)
Passwords == {"admin123", "secret1", "short"}

\* a value Python takes as true in `if st.session_state.username:`
Truthy(v) == v # None /\ v # ""

\* refresh_data(): the frame the session holds after the call
RefreshData(ss, tbl) ==
    IF Truthy(ss.username)
    THEN [ss EXCEPT !.transactions_df = GetAllTransactions(tbl, ss.username)]
    ELSE ss

Event(op, id, result) == Call(op, session_state.username, id, NoRow, result)

\* login_page(): the login form
LoginSubmit(username, password) ==
    /\ ~session_state.logged_in
    /\ Len(login_logs) < MaxLogs
    /\ LET v == VerifyUser(users, username, password)
       IN  IF v[1]
           THEN /\ session_state' =
                      RefreshData([session_state EXCEPT !.logged_in = TRUE,
                                      !.user_role = v[2], !.username = username],
                                  transactions)
                /\ login_logs' = LogLogin(login_logs, username, "Success")
                /\ last' = AuthCall("Login", username, password, v[2], "ok")
           ELSE /\ login_logs' = LogLogin(login_logs, username, "Failure")
                /\ last' = AuthCall("Login", username, password, v[2],
                                     "Invalid username or password")
                /\ UNCHANGED session_state
    /\ UNCHANGED <<transactions, seq, users>>

\* login_page(): the sign-up form
SignUpSubmit(new_user, new_pass, confirm_pass) ==
    /\ ~session_state.logged_in
    /\ IF new_pass # confirm_pass
       THEN /\ last' = Call("SignUp", new_user, 0, NoRow, "Passwords do not match")
            /\ UNCHANGED users
       ELSE IF Len(new_pass) < 6
       THEN /\ last' = Call("SignUp", new_user, 0, NoRow, "Password must be at least 6 characters")
            /\ UNCHANGED users
       ELSE \E salt \in Salts :
               LET r == AddUser(users, new_user, new_pass, "user", salt)
               IN  /\ users' = r[2]
                   /\ last' = Call("SignUp", new_user, 0, NoRow,
                                   IF r[1] THEN "ok" ELSE "Username already exists")
    /\ UNCHANGED <<transactions, seq, login_logs, session_state>>

\* a logout that forgets the username and keeps the role
LogoutKeepsRole ==
    /\ session_state.logged_in
    /\ session_state' = [session_state EXCEPT !.logged_in = FALSE, !.username = None]
    /\ last' = Call("Logout", None, 0, NoRow, "ok")
    /\ UNCHANGED <<transactions, seq, users, login_logs>>

\* the sidebar's Logout button
Logout ==
    /\ session_state.logged_in
    /\ session_state' = [session_state EXCEPT !.logged_in = FALSE, !.user_role = None,
                                              !.username = None]
    /\ last' = Call("Logout", None, 0, NoRow, "ok")
    /\ UNCHANGED <<transactions, seq, users, login_logs>>

\* the sidebar's Reset Dashboard button, enabled by its checkbox
ResetDashboard ==
    /\ session_state.logged_in
    /\ transactions' = DeleteUserRows(transactions, session_state.username)
    /\ session_state' = RefreshData(session_state, transactions')
    /\ last' = Event("ResetDashboard", 0, "ok")
    /\ UNCHANGED <<seq, users, login_logs>>

\* what the widgets of the Add Transaction form let through
FormAllows(row) ==
    /\ row.type \in {"Income", "Expense"}
    /\ row.category \in GetCategories(row.type)
    /\ row.amount >= 1

\* Add Transaction: the Save Transaction button
SaveTransaction(row) ==
    /\ session_state.logged_in
    /\ FormAllows(row)
    /\ IF RowAllowed(row)
       THEN /\ seq < MaxAppId
            /\ transactions' = InsertRow(transactions, seq, session_state.username, row)
            /\ seq' = NextRowId(seq)
            /\ session_state' = RefreshData(session_state, transactions')
            /\ last' = Call("SaveTransaction", session_state.username, NextRowId(seq), row, "ok")
       ELSE /\ UNCHANGED <<transactions, seq, session_state>>
            /\ last' = Call("SaveTransaction", session_state.username, 0, row, "Error saving transaction")
    /\ UNCHANGED <<users, login_logs>>

\* the Ledger's filters: the positions of transactions_df that are shown
Filtered(df, filter_type, filter_category) ==
    {k \in 1..Len(df) :
        /\ filter_type # "All" => df[k].type = filter_type
        /\ filter_category # "All" => df[k].category = filter_category}

FilterTypes == {"All", "Income", "Expense"}
FilterCategories == {"All", "Sales"}

\* what the columns of the data editor let through
EditorAllows(row) == row.type \in {"Income", "Expense"} /\ row.amount >= 1

\* a row of the edited frame, as the arguments of update_transaction
EditedRow(r) ==
    [date |-> Strftime(r.date), type |-> r.type, category |-> r.category,
     amount |-> r.amount, description |-> r.description]

RECURSIVE UpdateEach(_, _, _)
\* for idx, row in edited_df.iterrows(): db.update_transaction(...)
UpdateEach(tbl, edited, ks) ==
    IF ks = {} THEN tbl
    ELSE LET k == CHOOSE x \in ks : TRUE
         IN  UpdateEach(UpdateRows(tbl, edited[k].id, EditedRow(edited[k])), edited, ks \ {k})

\* Ledger: the Save Changes button, after one row of the editor was changed
SaveChanges(filter_type, filter_category, k, row) ==
    /\ session_state.logged_in
    /\ session_state.transactions_df # EmptyFrame
    /\ EditorAllows(row)
    /\ LET df == session_state.transactions_df
           ks == Filtered(df, filter_type, filter_category)
           edited == [df EXCEPT ![k] = [id |-> df[k].id, date |-> ToDatetime(row.date),
                                       type |-> row.type, category |-> row.category,
                                       amount |-> row.amount,
                                       description |-> row.description]]
       IN  /\ k \in ks
           /\ edited # df
           /\ transactions' = UpdateEach(transactions, edited, ks)
           /\ session_state' = RefreshData(session_state, transactions')
           /\ last' = Event("SaveChanges", df[k].id, "ok")
    /\ UNCHANGED <<seq, users, login_logs>>

\* max_value of the delete_id number input
MaxDeleteId(df, ks) ==
    IF ks = {} THEN 1 ELSE CHOOSE m \in {df[k].id : k \in ks} : \A k \in ks : df[k].id <= m

\* Ledger: the Delete Transaction button, enabled by its checkbox
DeleteButton(filter_type, filter_category, delete_id) ==
    /\ session_state.logged_in
    /\ session_state.transactions_df # EmptyFrame
    /\ LET df == session_state.transactions_df
       IN  delete_id \in 1..MaxDeleteId(df, Filtered(df, filter_type, filter_category))
    /\ transactions' = DeleteRows(transactions, delete_id)
    /\ session_state' = RefreshData(session_state, transactions')
    /\ last' = Event("DeleteButton", delete_id, "ok")
    /\ UNCHANGED <<seq, users, login_logs>>

\* the passwords typed into the admin forms: one long enough, one too short
AdminPasswords == {"admin123", "short"}

\* an Admin section open to every role
CanOpenAdminAnyRole(ss) == TRUE

\* the Admin entry of the navigation and the Admin section's own test:
\* st.session_state.user_role == 'admin'
CanOpenAdmin(ss) == ss.user_role = "admin"

\* admin_dashboard(): the users table and the login logs are read and shown
AdminDashboard ==
    /\ session_state.logged_in
    /\ CanOpenAdmin(session_state)
    /\ last' = Event("AdminDashboard", 0, "ok")
    /\ UNCHANGED <<transactions, seq, users, login_logs, session_state>>

\* admin_dashboard(): the Add User form
AdminAddUser(new_user, new_pass, role) ==
    /\ session_state.logged_in
    /\ CanOpenAdmin(session_state)
    /\ \E salt \in Salts :
          LET r == AddUser(users, new_user, new_pass, role, salt)
          IN  /\ users' = r[2]
              /\ last' = Call("AdminAddUser", new_user, 0, NoRow,
                              IF r[1] THEN "ok" ELSE "Username already exists")
    /\ UNCHANGED <<transactions, seq, login_logs, session_state>>

\* admin_dashboard(): the Reset Password form; the user is picked from the
\* usernames of the users table
AdminResetPassword(reset_username, reset_new_pass) ==
    /\ session_state.logged_in
    /\ CanOpenAdmin(session_state)
    /\ reset_username \in DOMAIN users
    /\ IF Len(reset_new_pass) < 6
       THEN /\ last' = Call("AdminResetPassword", reset_username, 0, NoRow,
                            "Password must be at least 6 characters")
            /\ UNCHANGED users
       ELSE \E salt \in Salts :
               LET r == UpdatePassword(users, reset_username, reset_new_pass, salt)
               IN  /\ users' = r[2]
                   /\ last' = Call("AdminResetPassword", reset_username, 0, NoRow, "ok")
    /\ UNCHANGED <<transactions, seq, login_logs, session_state>>

RECURSIVE FrameSum(_, _, _)
\* filtered_df[filtered_df['type'] == type]['amount'].sum()
FrameSum(df, ks, type) ==
    IF ks = {} THEN 0
    ELSE LET k == CHOOSE x \in ks : TRUE
         IN  (IF df[k].type = type THEN df[k].amount ELSE 0) + FrameSum(df, ks \ {k}, type)

\* the Dashboard's key metrics for the selected year and month
DashboardMetrics(ss, tbl, selected_year, selected_month) ==
    LET df == ss.transactions_df
        filtered == IF df # EmptyFrame
                    THEN {k \in 1..Len(df) : df[k].date.year = selected_year
                                               /\ df[k].date.month = selected_month}
                    ELSE {}
        cumulative == GetCumulativeBalance(tbl, ss.username)
    IN  IF filtered # {}
        THEN [total_income |-> FrameSum(df, filtered, "Income"),
              total_expenses |-> FrameSum(df, filtered, "Expense"),
              net_flow |-> FrameSum(df, filtered, "Income") - FrameSum(df, filtered, "Expense"),
              current_balance |-> IF cumulative # <<>>
                                  THEN cumulative[Len(cumulative)].cumulative_balance
                                  ELSE 0]
        ELSE [total_income |-> 0, total_expenses |-> 0, net_flow |-> 0, current_balance |-> 0]

\* the Dashboard section is shown for the year and month of the sidebar
Dashboard(selected_year, selected_month) ==
    /\ session_state.logged_in
    /\ LET m == DashboardMetrics(session_state, transactions, selected_year, selected_month)
       IN  last' = [Event("Dashboard", 0, "ok") EXCEPT !.balance = m.current_balance]
    /\ UNCHANGED <<transactions, seq, users, login_logs, session_state>>

AppNext ==
    \/ \E username \in Usernames, password \in Passwords : LoginSubmit(username, password)
    \/ \E new_user \in Usernames, new_pass \in Passwords, confirm_pass \in Passwords :
          SignUpSubmit(new_user, new_pass, confirm_pass)
    \/ Logout
    \/ ResetDashboard
    \/ \E row \in TxInputs : SaveTransaction(row)
    \/ \E filter_type \in FilterTypes, filter_category \in FilterCategories,
          k \in 1..MaxAppId, row \in TxInputs :
          SaveChanges(filter_type, filter_category, k, row)
    \/ \E filter_type \in FilterTypes, filter_category \in FilterCategories,
          delete_id \in 1..MaxAppId :
          DeleteButton(filter_type, filter_category, delete_id)
    \/ \E selected_year \in Years, selected_month \in Months :
          Dashboard(selected_year, selected_month)
    \/ AdminDashboard
    \/ \E new_user \in Usernames, new_pass \in AdminPasswords, role \in {"user", "admin"} :
          AdminAddUser(new_user, new_pass, role)
    \/ \E reset_username \in Usernames, reset_new_pass \in AdminPasswords :
          AdminResetPassword(reset_username, reset_new_pass)

SpecApp == Init /\ [][AppNext]_vars

(***************************************************************************)
(* The users table's operations, called directly.                          *)
(***************************************************************************)
Roles == {"admin", "user", "guest"}

\* add_user(username, password, role)
AddUserCall(username, password, role) ==
    /\ \E salt \in Salts :
          LET r == AddUser(users, username, password, role, salt)
          IN  /\ users' = r[2]
              /\ last' = AuthCall("add_user", username, password, role,
                                  IF r[1] THEN "ok" ELSE "Username already exists")
    /\ UNCHANGED <<transactions, seq, login_logs, session_state>>

\* update_password(username, new_password)
UpdatePasswordCall(username, new_password) ==
    /\ \E salt \in Salts :
          LET r == UpdatePassword(users, username, new_password, salt)
          IN  /\ users' = r[2]
              /\ last' = AuthCall("update_password", username, new_password, None, "ok")
    /\ UNCHANGED <<transactions, seq, login_logs, session_state>>

\* verify_user(username, password)
VerifyUserCall(username, password) ==
    /\ LET v == VerifyUser(users, username, password)
       IN  last' = AuthCall("verify_user", username, password, v[2],
                            IF v[1] THEN "True" ELSE "False")
    /\ UNCHANGED <<transactions, seq, users, login_logs, session_state>>

AuthNext ==
    \/ \E username \in Usernames, password \in Passwords, role \in Roles :
          AddUserCall(username, password, role)
    \/ \E username \in Usernames, new_password \in Passwords :
          UpdatePasswordCall(username, new_password)
    \/ \E username \in Usernames, password \in Passwords : VerifyUserCall(username, password)

SpecAuth == Init /\ [][AuthNext]_vars

(***************************************************************************)
(* The properties, stated over the stored rows without the queries.       *)
(***************************************************************************)
\* the calendar date of a stored transaction
DateOf(i) == ToDatetime(transactions[i].date)

\* calendar order
DayLeq(a, b) ==
    \/ a.year < b.year
    \/ (a.year = b.year /\ a.month < b.month)
    \/ (a.year = b.year /\ a.month = b.month /\ a.day <= b.day)

RECURSIVE TotalUpTo(_, _, _)
\* the sum of the amounts of the stored transactions of kind `type` among ids, ids <= n
TotalUpTo(ids, type, n) ==
    IF n = 0 THEN 0
    ELSE TotalUpTo(ids, type, n - 1)
            + (IF n \in ids /\ transactions[n].type = type THEN transactions[n].amount ELSE 0)

\* Income amounts minus Expense amounts over a set of stored transactions
Net(ids) == TotalUpTo(ids, "Income", seq) - TotalUpTo(ids, "Expense", seq)

\* the stored transactions of an owner
Owned(owner) == {i \in DOMAIN transactions : transactions[i].username = owner}

RECURSIVE SeqSum(_)
SeqSum(s) == IF s = <<>> THEN 0 ELSE s[1] + SeqSum(Tail(s))

\* C1: cumulativeBalance(owner) has one point per distinct date of the owner's
\* stored transactions, in ascending date order, and each point's balance is
\* the owner's Income minus Expense over the transactions dated on or before
\* it; no transactions give the empty sequence.
C1_CumulativeBalance ==
    \A owner \in Usernames :
        LET cb == GetCumulativeBalance(transactions, owner)
            own == Owned(owner)
        IN  /\ own = {} => cb = <<>>
            /\ {cb[k].date : k \in 1..Len(cb)} = {DateOf(i) : i \in own}
            /\ Len(cb) = Cardinality({DateOf(i) : i \in own})
            /\ \A k \in 1..(Len(cb) - 1) :
                  DayLeq(cb[k].date, cb[k + 1].date) /\ cb[k].date # cb[k + 1].date
            /\ \A k \in 1..Len(cb) :
                  cb[k].cumulative_balance
                      = Net({i \in own : DayLeq(DateOf(i), cb[k].date)})

\* scenario 2 of the spec: three entries on two dates
C1_Witness ==
    /\ Cardinality(Owned("alice")) = 3
    /\ GetCumulativeBalance(transactions, "alice")
         = << [date |-> D(2024, 1, 5), daily_change |-> 6000, cumulative_balance |-> 6000],
              [date |-> D(2024, 2, 1), daily_change |-> 5000, cumulative_balance |-> 11000] >>

\* C2: when cumulativeBalance(owner) is not empty, its last balance is the sum
\* of its daily nets, which is the owner's total Income minus total Expense
\* over the transactions stored now.
C2_SumLaw ==
    \A owner \in Usernames :
        LET cb == GetCumulativeBalance(transactions, owner)
        IN  cb # <<>> =>
               /\ cb[Len(cb)].cumulative_balance
                    = SeqSum([k \in 1..Len(cb) |-> cb[k].daily_change])
               /\ cb[Len(cb)].cumulative_balance = Net(Owned(owner))

\* after an edit of a stored transaction whose owner has entries on two dates
C2_Witness ==
    /\ last.op = "update" /\ last.result = "ok" /\ last.id \in DOMAIN transactions
    /\ Len(GetCumulativeBalance(transactions, transactions[last.id].username)) = 2
    /\ Cardinality(DOMAIN transactions) < seq

\* df[(df['year'] == selected_year) & (df['month'] == selected_month)]
FilterMonth(df, year, month) ==
    {k \in 1..Len(df) : df[k].date.year = year /\ df[k].date.month = month}

\* the rows of a frame grouped by (category, kind), amounts summed
RECURSIVE FrameTotal(_, _, _, _)
FrameTotal(df, ks, category, type) ==
    IF ks = {} THEN 0
    ELSE LET k == CHOOSE x \in ks : TRUE
         IN  (IF df[k].category = category /\ df[k].type = type THEN df[k].amount ELSE 0)
                + FrameTotal(df, ks \ {k}, category, type)

ClientSummary(df, year, month) ==
    LET ks == FilterMonth(df, year, month)
    IN  { [category |-> df[k].category, type |-> df[k].type,
           total |-> FrameTotal(df, ks, df[k].category, df[k].type)] : k \in ks }

\* C3: monthlySummary(owner, year, month) is the rows got from listByOwner(owner)
\* by keeping the transactions of that year and month, grouping by
\* (category, kind) and summing; a pair appears at most once, and never without
\* a matching transaction.
C3_CrossCheck ==
    \A owner \in Usernames :
        LET df == GetAllTransactions(transactions, owner)
        IN  \A year \in Years, month \in Months :
                LET ms == GetMonthlySummary(transactions, owner, year, month)
                IN  /\ ms = ClientSummary(df, year, month)
                    /\ Cardinality({<<r.category, r.type>> : r \in ms}) = Cardinality(ms)
                    /\ \A r \in ms :
                          \E i \in Owned(owner) :
                              /\ transactions[i].category = r.category
                              /\ transactions[i].type = r.type
                              /\ DateOf(i).year = year /\ DateOf(i).month = month

\* January 2024 with two Sales entries on different days and one Rent entry
C3_Witness ==
    GetMonthlySummary(transactions, "alice", 2024, 1)
        = { [category |-> "Sales", type |-> "Income", total |-> 15000],
            [category |-> "Rent", type |-> "Expense", total |-> 4000] }

\* the three results the store gives an owner
Results(tbl, owner) ==
    <<GetAllTransactions(tbl, owner), GetCumulativeBalance(tbl, owner),
      [ym \in Years \X Months |-> GetMonthlySummary(tbl, owner, ym[1], ym[2])]>>

\* the table without the rows of the other owners
OnlyOf(owner) == [i \in Owned(owner) |-> transactions[i]]

\* C5: listByOwner(o) returns exactly the stored transactions of owner o, and
\* the list and the two aggregates are computed from exactly those: they are
\* what they would be were no other owner's transaction stored, so adding
\* transactions for another owner leaves the three results for o as they were.
C5_Visibility ==
    \A o \in Usernames :
        LET df == GetAllTransactions(transactions, o)
        IN  /\ {df[k].id : k \in 1..Len(df)} = Owned(o)
            /\ Len(df) = Cardinality(Owned(o))
            /\ \A k \in 1..Len(df) : df[k] = FrameRow(transactions, df[k].id)
            /\ Results(transactions, o) = Results(OnlyOf(o), o)

\* another owner's transaction has just been stored beside alice's two
C5_Witness ==
    /\ last.op = "add" /\ last.result = "ok" /\ last.username = "admin"
    /\ Cardinality(Owned("alice")) = 2
    /\ Owned("admin") # {}

\* C6: add with amount zero or negative is rejected and leaves the store as it
\* was; add of 0.01 with otherwise valid fields stores exactly one new
\* transaction.
C6_AddAmount ==
    [][last'.op = "add" =>
         /\ last'.row.amount <= 0 =>
               /\ last'.result # "ok"
               /\ transactions' = transactions /\ seq' = seq
         /\ (last'.row.amount = 1 /\ last'.row.type \in {"Income", "Expense"}) =>
               /\ last'.result = "ok"
               /\ last'.id \notin DOMAIN transactions
               /\ DOMAIN transactions' = DOMAIN transactions \cup {last'.id}
               /\ transactions'[last'.id] = Stored(last'.username, last'.row)
               /\ \A i \in DOMAIN transactions : transactions'[i] = transactions[i]]_vars

\* an add of amount 0 was refused while the store held transactions
C6_Witness ==
    /\ last.op = "add" /\ last.row.amount = 0 /\ last.result = "IntegrityError"
    /\ Cardinality(DOMAIN transactions) = 2

\* C7: add fails, and stores nothing, when the category is not in the Category
\* Registry.
C7_AddUnknownCategory ==
    (last.op = "add" /\ last.row.category \notin DOMAIN categories)
        => (last.result # "ok" /\ last.id \notin DOMAIN transactions)

\* C8: update of an id that is not in the store ends in a NotFoundError, which
\* the caller can tell from a successful update, and leaves the store as it was.
C8_UpdateNotFound ==
    (last.op = "update" /\ last.id \notin DOMAIN transactions)
        => last.result = "NotFoundError"

\* C9: delete(id) twice leaves the store as delete(id) once does, and delete of
\* an absent id raises no error and changes nothing.
C9_DeleteIdempotent ==
    [][last'.op = "delete" =>
         /\ last'.result = "ok"
         /\ seq' = seq
         /\ DeleteRows(transactions', last'.id) = transactions'
         /\ last'.id \notin DOMAIN transactions => transactions' = transactions
         /\ (last.op = "delete" /\ last.id = last'.id) => transactions' = transactions]_vars

\* a stored transaction has been deleted, others are left
C9_Witness ==
    /\ last.op = "delete" /\ last.id <= seq /\ last.id \notin DOMAIN transactions
    /\ Cardinality(DOMAIN transactions) = 2

\* C10: deleteAll(owner) removes exactly the owner's transactions: afterwards
\* listByOwner(owner) and cumulativeBalance(owner) are empty and every other
\* user's transaction is stored as before.
C10_DeleteAll ==
    [][last'.op = "deleteAll" =>
         /\ GetAllTransactions(transactions', last'.username) = <<>>
         /\ GetCumulativeBalance(transactions', last'.username) = <<>>
         /\ DOMAIN transactions' = DOMAIN transactions \ Owned(last'.username)
         /\ \A i \in DOMAIN transactions' : transactions'[i] = transactions[i]]_vars

\* alice's transactions are gone, admin's is left
C10_Witness ==
    /\ last.op = "deleteAll" /\ last.username = "alice"
    /\ seq = 3 /\ Cardinality(Owned("admin")) = 1

\* C4: an edit, delete or reset issued from a session authenticated as A never
\* changes, removes or adds a transaction owned by another user B.
C4_OwnerScope ==
    [][(session_state.logged_in /\ last'.op \in {"SaveChanges", "DeleteButton", "ResetDashboard"}) =>
         /\ \A i \in DOMAIN transactions :
               transactions[i].username # session_state.username
                   => (i \in DOMAIN transactions' /\ transactions'[i] = transactions[i])
         /\ \A i \in DOMAIN transactions' \ DOMAIN transactions :
               transactions'[i].username = session_state.username]_vars

\* C11: listByOwner(owner) is ordered by date descending and, among equal
\* dates, by id descending; ids are given in strictly increasing order of
\* insertion and never given again after a delete, so among transactions of
\* one date the one inserted last comes first.
C11_ListOrder ==
    /\ [](\A owner \in Usernames :
            LET df == GetAllTransactions(transactions, owner)
            IN  \A k \in 1..(Len(df) - 1) :
                   \/ (DayLeq(df[k + 1].date, df[k].date) /\ df[k + 1].date # df[k].date)
                   \/ (df[k + 1].date = df[k].date /\ df[k + 1].id < df[k].id))
    /\ [][/\ seq' >= seq
          /\ \A i \in DOMAIN transactions' : i <= seq'
          /\ (last'.op = "add" /\ last'.result = "ok") =>
                /\ last'.id > seq
                /\ last'.id \in DOMAIN transactions' \ DOMAIN transactions
                /\ DOMAIN transactions' = DOMAIN transactions \cup {last'.id}]_vars

\* a row was stored after an older one was deleted; two rows of one date are listed
C11_Witness ==
    /\ last.op = "add" /\ last.result = "ok" /\ last.id = 3
    /\ Cardinality(DOMAIN transactions) = 2
    /\ LET df == GetAllTransactions(transactions, last.username)
       IN  Len(df) = 2 /\ df[1].date = df[2].date /\ df[1].id = 3

\* C12: every stored transaction has amount > 0 and kind Income or Expense; an
\* update that would set amount <= 0 or another kind is refused and leaves the
\* transaction it names as it was.
C12_StoredRowsValid ==
    /\ [](\A i \in DOMAIN transactions :
            transactions[i].amount > 0 /\ transactions[i].type \in {"Income", "Expense"})
    /\ [][(/\ last'.op = "update"
           /\ last'.id \in DOMAIN transactions
           /\ (last'.row.amount <= 0 \/ last'.row.type \notin {"Income", "Expense"}))
             => (last'.result # "ok" /\ transactions' = transactions)]_vars

\* an update to amount 0 of a stored transaction was refused
C12_Witness ==
    /\ last.op = "update" /\ last.result = "IntegrityError"
    /\ last.id \in DOMAIN transactions /\ last.row.amount = 0

\* C13: every stored transaction's category is registered in the Category
\* Registry under the transaction's own kind, also after a ledger edit that
\* changes the kind or the category.
C13_CategoryKind ==
    \A i \in DOMAIN transactions :
        /\ transactions[i].category \in DOMAIN categories
        /\ categories[transactions[i].category] = transactions[i].type

\* the step set the password of user u: a successful add_user or an
\* update_password that found the user
SetsPassword(u) ==
    /\ last'.op \in {"add_user", "update_password"}
    /\ last'.result = "ok"
    /\ last'.username = u
    /\ u \in DOMAIN users'

\* C14: verify(username, password) returns (true, the stored role) exactly when
\* the username exists and the password is the one set last for it by addUser
\* or updatePassword (at first: the bootstrap admin's); otherwise it returns
\* (false, None), the same for an absent username and for a wrong password.
C14_Verify ==
    /\ \A u \in Usernames, p \in Passwords :
          VerifyUser(users, u, p)
              = IF u = "admin" /\ p = "admin123" THEN <<TRUE, "admin">> ELSE <<FALSE, None>>
    /\ [][\A u \in Usernames, p \in Passwords :
            LET before == VerifyUser(users, u, p)
                after == VerifyUser(users', u, p)
            IN  /\ u \notin DOMAIN users' => after = <<FALSE, None>>
                /\ after[1] => after[2] = users'[u].role
                /\ ~after[1] => after = <<FALSE, None>>
                /\ SetsPassword(u) => (after[1] <=> p = last'.password)
                /\ ~SetsPassword(u) => after = before]_vars

\* alice's password was replaced: the new one verifies, another does not
C14_Witness ==
    /\ last.op = "update_password" /\ last.username = "alice" /\ last.password = "secret1"
    /\ VerifyUser(users, "alice", "secret1") = <<TRUE, "user">>
    /\ VerifyUser(users, "alice", "admin123") = <<FALSE, None>>

\* C15: addUser with a username that exists returns ok = false and leaves that
\* user's password hash and role as they were; addUser with a new username
\* (and a role of the enumeration) returns ok = true, and afterwards that
\* username is in the table once, with the requested role.
C15_AddUser ==
    [][last'.op = "add_user" =>
         /\ last'.username \in DOMAIN users =>
               (last'.result # "ok" /\ users' = users)
         /\ (last'.username \notin DOMAIN users /\ last'.role \in {"admin", "user"}) =>
               /\ last'.result = "ok"
               /\ DOMAIN users' = DOMAIN users \cup {last'.username}
               /\ users'[last'.username].role = last'.role
               /\ VerifyUser(users', last'.username, last'.password) = <<TRUE, last'.role>>
               /\ \A u \in DOMAIN users : users'[u] = users[u]]_vars

\* a sign-up as admin with another password and role was refused
C15_Witness ==
    /\ last.op = "add_user" /\ last.username = "admin" /\ last.role = "user"
    /\ last.password = "secret1" /\ last.result = "Username already exists"
    /\ users["admin"].role = "admin" /\ "alice" \in DOMAIN users

\* the session is Anonymous / Authenticated
Anonymous(ss) == ~ss.logged_in

\* C16: a session follows Anonymous -> Authenticated{username, role} ->
\* Anonymous.  It becomes Authenticated only by a login whose verify call
\* succeeded, and then holds the username submitted and the role verify
\* returned; a login whose verify call failed leaves it Anonymous; it returns
\* to Anonymous only by the Logout button, which clears username and role;
\* and while it is Anonymous the only operations are the login and sign-up
\* forms, which issue no transaction operation and leave the table alone.
C16_SessionMachine ==
    /\ [](Anonymous(session_state) =>
             session_state.username = None /\ session_state.user_role = None)
    /\ [][/\ (Anonymous(session_state) /\ ~Anonymous(session_state')) =>
               /\ last'.op = "Login" /\ last'.result = "ok"
               /\ VerifyUser(users, last'.username, last'.password)
                     = <<TRUE, session_state'.user_role>>
               /\ session_state'.username = last'.username
          /\ (/\ Anonymous(session_state) /\ last'.op = "Login"
              /\ ~VerifyUser(users, last'.username, last'.password)[1]) =>
               (Anonymous(session_state') /\ last'.result # "ok")
          /\ (~Anonymous(session_state) /\ Anonymous(session_state')) =>
               /\ last'.op = "Logout"
               /\ session_state'.username = None /\ session_state'.user_role = None
          /\ (~Anonymous(session_state) /\ ~Anonymous(session_state')) =>
               /\ session_state'.username = session_state.username
               /\ session_state'.user_role = session_state.user_role
          /\ Anonymous(session_state) =>
               /\ last'.op \in {"Login", "SignUp"}
               /\ transactions' = transactions /\ seq' = seq
               /\ session_state'.transactions_df \in
                     {session_state.transactions_df,
                      GetAllTransactions(transactions, session_state'.username)}]_vars

\* after a failed and a successful login, the session was logged out
C16_Witness ==
    /\ last.op = "Logout" /\ Anonymous(session_state)
    /\ session_state.username = None /\ session_state.user_role = None
    /\ Len(login_logs) = 2
    /\ login_logs[1].status = "Failure" /\ login_logs[2].status = "Success"

AdminOps == {"AdminDashboard", "AdminAddUser", "AdminResetPassword"}

\* the session is Authenticated with role admin
IsAdminSession(ss) == ss.logged_in /\ ss.user_role = "admin"

\* C17: listing the users, adding a user with a chosen role, resetting a
\* password and reading the login logs happen only in a session that is
\* Authenticated with role admin: a step taken by an Anonymous session or by
\* a session with role user is none of these operations, changes no existing
\* user's password or role, and creates no user with a role other than user.
C17_AdminOnly ==
    [][/\ last'.op \in AdminOps => IsAdminSession(session_state)
       /\ ~IsAdminSession(session_state) =>
            /\ \A u \in DOMAIN users : u \in DOMAIN users' /\ users'[u] = users[u]
            /\ \A u \in DOMAIN users' \ DOMAIN users : users'[u].role = "user"]_vars

\* the admin has reset the password of alice, who had signed up with another
C17_Witness ==
    /\ last.op = "AdminResetPassword" /\ last.result = "ok"
    /\ last.username = "alice" /\ session_state.username = "admin"
    /\ IsAdminSession(session_state)
    /\ users["alice"].role = "user"
    /\ VerifyUser(users, "alice", "admin123")[1]

\* the balance of the last entry of the owner's cumulative balance, 0 without one
LastBalance(tbl, username) ==
    LET c == GetCumulativeBalance(tbl, username)
    IN  IF c = <<>> THEN 0 ELSE c[Len(c)].cumulative_balance

\* C18: the balance the dashboard shows is the balance of the last entry of
\* the owner's cumulative balance, or 0 when the owner has no transactions,
\* whatever year and month are selected.
C18_DashboardBalance ==
    last.op = "Dashboard" => last.balance = LastBalance(transactions, session_state.username)

====
